---- MODULE Spec2Model ----
(***************************************************************************)
(* A model of directory-compare (src/file-db.py): the walk of main, the    *)
(* FileNode / DirectoryNode / TreeNode classes, the process pool's futures *)
(* and their completion callbacks, the global registries `futures`,        *)
(* `digests`, `dupe_groups` and `tree`.                                    *)
(***************************************************************************)
EXTENDS Integers, Sequences, FiniteSets, TLC

\* ------------------------------------------------------------------ bounds
\* The largest number of files and directories below the root directory.
MaxNodes == 4
\* The same where two client threads call digest() concurrently.
MaxConcNodes == 2
\* The same where digest() is called while the walk is still building the tree.
MaxEarlyNodes == 3
\* The same where report() is called while the hashing goes on.
MaxReportNodes == 3

\* ------------------------------------------------------------------ paths
\* A path is the sequence of its components; the empty string is <<>>.
Names == {"a", "b"}
Rank == [n \in {"r", "a", "b"} |-> CASE n = "a" -> 1 [] n = "b" -> 2 [] OTHER -> 3]
EmptyPath == <<>>
RootDir == <<"r">>
Join(dir, name) == Append(dir, name)
Parent(p) == SubSeq(p, 1, Len(p) - 1)
Level1 == {Join(RootDir, n) : n \in Names}
Level2 == {Join(p, n) : p \in Level1, n \in Names}
AllPaths == Level1 \cup Level2

\* str.__lt__ on two paths: lexicographic, a proper prefix first.
RECURSIVE PathLess(_, _)
PathLess(p, q) ==
    IF q = <<>> THEN FALSE
    ELSE IF p = <<>> THEN TRUE
    ELSE IF Head(p) = Head(q) THEN PathLess(Tail(p), Tail(q))
    ELSE Rank[Head(p)] < Rank[Head(q)]

\* list.sort() of a list of distinct paths, given as the set of its elements.
RECURSIVE SortPaths(_)
SortPaths(S) ==
    IF S = {} THEN <<>>
    ELSE LET m == CHOOSE m \in S : \A o \in S : ~PathLess(o, m)
         IN  <<m>> \o SortPaths(S \ {m})

Range(s) == {s[i] : i \in 1..Len(s)}

\* ------------------------------------------------------------------ digests
\* A byte string is a sequence of atoms. An atom is a raw chunk of file
\* content or the 64 hex characters of one SHA-256 value; SHA-256 is taken
\* to be collision-free, so a hash value is the term of what was hashed.
Raw(c) == [k |-> c, v |-> <<>>]
Sha256(s) == <<[k |-> "sha", v |-> s]>>
\* A fold that starts from SHA256("") instead of the empty string.
SeedHashed == <<[k |-> "sha", v |-> <<>>]>>
Seed == <<>>
\* A combinator that hashes the two digests without regard to which of
\* them is the accumulator: it hashes the number of atoms they hold together.
ChainOfSize(a, b) == <<[k |-> "sha", v |-> [i \in 1..(Len(a) + Len(b)) |-> [k |-> "n", v |-> <<>>]]]>>
\* lambda a, b: hashlib.sha256(str(a + b).encode('utf-8')).hexdigest()
Chain(a, b) == Sha256(a \o b)
\* functools.reduce(Chain, ds, '')
RECURSIVE Fold(_, _)
Fold(acc, ds) == IF ds = <<>> THEN acc ELSE Fold(Chain(acc, Head(ds)), Tail(ds))

\* ------------------------------------------------------------------ the filesystem
Contents == {<<Raw("x")>>, <<Raw("y")>>, Sha256(<<Raw("x")>>)}
Absent == [kind |-> "absent", content |-> <<>>]
DirEntry == [kind |-> "dir", content |-> <<>>]
FileEntry(c) == [kind |-> "file", content |-> c]
Entries == {Absent, DirEntry} \cup {FileEntry(c) : c \in Contents}

WellFormed(f) ==
    /\ \A p \in Level2 : f[p].kind # "absent" => f[Parent(p)].kind = "dir"
    /\ Cardinality({p \in AllPaths : f[p].kind # "absent"}) <= MaxNodes
FileSystems == {f \in [AllPaths -> Entries] : WellFormed(f)}
NodeCount(f) == Cardinality({p \in AllPaths : f[p].kind # "absent"})

KindAt(f, p) == IF p \in AllPaths THEN f[p].kind ELSE "absent"
\* One tuple of os.walk: the names of the sub-directories and of the files.
WalkDirs(f, d) == {n \in Names : KindAt(f, Join(d, n)) = "dir"}
WalkFiles(f, d) == {n \in Names : KindAt(f, Join(d, n)) = "file"}
\* get_digest(path) of a readable file.
GetDigest(f, p) == Sha256(f[p].content)

VARIABLES
    fs,        \* the directory tree on disk
    tree,      \* tree: path -> kind of the node registered there
    paths,     \* DirectoryNode.paths of each directory node
    futures,   \* the global list `futures`
    fut,       \* the state of each submitted future
    cbs,       \* the futures holding a registered done-callback
    digests,   \* the global dict `digests`: digest -> set of nodes
    mainpc,    \* where the main thread is
    todo,      \* directories os.walk has still to yield
    curr,      \* curr_dir
    pfiles,    \* files of curr_dir still to handle
    pdirs,     \* sub_dirs of curr_dir still to handle
    cur,       \* the file whose FileNode is under construction
    msaw,      \* main thread, inline callback: what `digest not in digests` saw
    mgrpc,     \* where the executor's result thread is
    mgrcur,    \* the future whose callback it runs
    mgrsaw,    \* result thread: what `digest not in digests` saw
    cmp,       \* what compare returned
    sub_dirs,  \* TreeNode.sub_dirs of each directory TreeNode
    files,     \* TreeNode.files of each directory TreeNode
    stack,     \* the call stack of each thread calling digest() or report()
    ret,       \* how each thread's last call ended, until its next call
    dupe_groups \* the global set `dupe_groups`

vars == <<fs, tree, paths, futures, fut, cbs, digests, mainpc, todo, curr,
          pfiles, pdirs, cur, msaw, mgrpc, mgrcur, mgrsaw, cmp,
          sub_dirs, files, stack, ret, dupe_groups>>

walkVars == <<todo, curr, pfiles, pdirs>>
mgrVars == <<mgrpc, mgrcur, mgrsaw>>
treeVars == <<sub_dirs, files, stack, ret, dupe_groups>>

\* A bare Future(), as a directory TreeNode holds until digest() resolves it.
NewFuture == [st |-> "new", val |-> <<>>]
Pending == [st |-> "pending", val |-> <<>>]
Finished(d) == [st |-> "finished", val |-> d]
Failed == [st |-> "failed", val |-> <<>>]
Done(p) == p \in DOMAIN fut /\ fut[p].st \in {"finished", "failed"}

\* The threads that call digest() and report(): the main thread, and the
\* threads of a client that calls them concurrently.
Callers == {"t1", "t2"}
Threads == {"main"} \cup Callers
NoCall == [op |-> "none", node |-> EmptyPath, val |-> <<>>, err |-> "none"]

\* ------------------------------------------------------------------ _add_to_digests
\* `digest not in digests`
NotInDigests(d) == d \notin DOMAIN digests
\* An insertion that files every node under the empty string.
AddToDigestsUnderSeed(d, node, absent) ==
    (<<>> :> ((IF <<>> \in DOMAIN digests THEN digests[<<>>] ELSE {}) \cup {node})) @@ digests
\* The branch taken on what the test saw: digests[digest] = {self}, or
\* digests[digest].add(self).
AddToDigests(d, node, absent) ==
    IF absent THEN (d :> {node}) @@ digests
    ELSE (d :> (digests[d] \cup {node})) @@ digests

\* ------------------------------------------------------------------ initial state
NoCompare == [self |-> EmptyPath, other |-> EmptyPath, num |-> 0, den |-> 0, err |-> "none"]

\* The registries and the executor after the module's global statements
\* (lines 150-154), before main has done anything.
Globals ==
    /\ futures = <<>>
    /\ fut = <<>>
    /\ cbs = {}
    /\ digests = <<>>
    /\ dupe_groups = {}
    /\ paths = <<>>
    /\ sub_dirs = <<>>
    /\ files = <<>>
    /\ todo = <<RootDir>>
    /\ curr = RootDir
    /\ pfiles = <<>>
    /\ pdirs = <<>>
    /\ cur = EmptyPath
    /\ msaw = FALSE
    /\ mgrpc = "idle"
    /\ mgrcur = EmptyPath
    /\ mgrsaw = FALSE
    /\ cmp = NoCompare
    /\ stack = [t \in Threads |-> <<>>]
    /\ ret = [t \in Threads |-> NoCall]

\* ------------------------------------------------------------------ FileNode, DirectoryNode
\* FileNode.__init__, lines 38-41: the path check, then
\* digest_executor.submit(get_digest, path). `escape` is where the thread
\* goes on when the constructor raises.
FileNodeInit(path, escape) ==
    IF path = EmptyPath
    THEN /\ ret' = [ret EXCEPT !["main"] =
                        [op |-> "FileNode", node |-> path, val |-> <<>>, err |-> "Exception"]]
         /\ mainpc' = escape
         /\ UNCHANGED <<fut, cur>>
    ELSE /\ fut' = (path :> Pending) @@ fut
         /\ cur' = path
         /\ mainpc' = "addcb"
         /\ UNCHANGED ret

\* DirectoryNode.__init__: the path check, then the empty child sets. The two
\* dicts _file_nodes and _directory_nodes are written and never read; `paths`
\* holds their keys.
DirectoryNodeInit(path, escape, next) ==
    IF path = EmptyPath
    THEN /\ ret' = [ret EXCEPT !["main"] =
                        [op |-> "DirectoryNode", node |-> path, val |-> <<>>, err |-> "Exception"]]
         /\ mainpc' = escape
         /\ UNCHANGED paths
    ELSE /\ paths' = (path :> {}) @@ paths
         /\ mainpc' = next
         /\ UNCHANGED ret

\* add_file(file): self.paths.add(file.path)
AddFile(selfPaths, filePath) == selfPaths \cup {filePath}
\* add_directory(directory): self.paths.add(directory.path)
AddDirectory(selfPaths, dirPath) == selfPaths \cup {dirPath}

\* add_done_callback on a future still pending: the callback is kept; then
\* futures.append(self._digest).
AddCallbackPending ==
    /\ mainpc = "addcb"
    /\ fut[cur].st = "pending"
    /\ cbs' = cbs \cup {cur}
    /\ futures' = Append(futures, cur)
    /\ mainpc' = "made"
    /\ UNCHANGED <<fs, tree, paths, fut, digests, walkVars, cur, msaw, mgrVars, cmp, treeVars>>

\* add_done_callback on a finished future: the callback runs at once, in the
\* calling thread; f.result() returns the digest.
AddCallbackInline ==
    /\ mainpc = "addcb"
    /\ fut[cur].st = "finished"
    /\ mainpc' = "cb_test"
    /\ UNCHANGED <<fs, tree, paths, futures, fut, cbs, digests, walkVars, cur, msaw, mgrVars, cmp, treeVars>>

\* add_done_callback on a failed future: f.result() raises inside the
\* callback, and add_done_callback logs and drops the exception.
AddCallbackRaises ==
    /\ mainpc = "addcb"
    /\ fut[cur].st = "failed"
    /\ futures' = Append(futures, cur)
    /\ mainpc' = "made"
    /\ UNCHANGED <<fs, tree, paths, fut, cbs, digests, walkVars, cur, msaw, mgrVars, cmp, treeVars>>

\* FileNode._add_to_digests run inline: the test
MainCbTest ==
    /\ mainpc = "cb_test"
    /\ msaw' = NotInDigests(fut[cur].val)
    /\ mainpc' = "cb_write"
    /\ UNCHANGED <<fs, tree, paths, futures, fut, cbs, digests, walkVars, cur, mgrVars, cmp, treeVars>>

\* FileNode._add_to_digests run inline: the insertion; then
\* futures.append(self._digest).
MainCbWrite ==
    /\ mainpc = "cb_write"
    /\ digests' = AddToDigests(fut[cur].val, cur, msaw)
    /\ futures' = Append(futures, cur)
    /\ mainpc' = "made"
    /\ UNCHANGED <<fs, tree, paths, fut, cbs, walkVars, cur, msaw, mgrVars, cmp, treeVars>>

\* ------------------------------------------------------------------ main: the walk
MainInit ==
    /\ fs \in FileSystems
    /\ Globals
    /\ tree = <<>>
    /\ mainpc = "start"

\* tree[root_dir] = DirectoryNode(root_dir)
MainStart ==
    /\ mainpc = "start"
    /\ DirectoryNodeInit(RootDir, "error", "walk")
    /\ tree' = IF RootDir = EmptyPath THEN tree ELSE (RootDir :> "dir") @@ tree
    /\ UNCHANGED <<fs, futures, fut, cbs, digests, walkVars, cur, msaw, mgrVars, cmp,
                   sub_dirs, files, stack, dupe_groups>>

\* os.walk yields the next directory, top-down; curr_dir_node = tree[curr_dir];
\* files.sort(); sub_dirs.sort().
WalkNext ==
    /\ mainpc = "walk"
    /\ todo # <<>>
    /\ LET d == Head(todo)
           subs == SortPaths({Join(d, n) : n \in WalkDirs(fs, d)})
       IN  /\ curr' = d
           /\ pfiles' = SortPaths({Join(d, n) : n \in WalkFiles(fs, d)})
           /\ pdirs' = subs
           /\ todo' = subs \o Tail(todo)
    /\ mainpc' = "files"
    /\ UNCHANGED <<fs, tree, paths, futures, fut, cbs, digests, cur, msaw, mgrVars, cmp, treeVars>>

\* path = os.path.join(curr_dir, file); sub_file_node = FileNode(path, executor)
FileNodeSubmit ==
    /\ mainpc = "files"
    /\ pfiles # <<>>
    /\ FileNodeInit(Head(pfiles), "error")
    /\ UNCHANGED <<fs, tree, paths, futures, cbs, digests, walkVars, msaw, mgrVars, cmp,
                   sub_dirs, files, stack, dupe_groups>>

\* curr_dir_node.add_file(sub_file_node); tree[path] = sub_file_node
RegisterFile ==
    /\ mainpc = "made"
    /\ paths' = [paths EXCEPT ![curr] = AddFile(@, cur)]
    /\ tree' = (cur :> "file") @@ tree
    /\ pfiles' = Tail(pfiles)
    /\ mainpc' = "files"
    /\ UNCHANGED <<fs, futures, fut, cbs, digests, todo, curr, pdirs, cur, msaw, mgrVars, cmp, treeVars>>

\* path = os.path.join(curr_dir, sub_dir); sub_dir_node = DirectoryNode(path)
MakeDirectory ==
    /\ mainpc = "files"
    /\ pfiles = <<>>
    /\ pdirs # <<>>
    /\ DirectoryNodeInit(Head(pdirs), "error", "dmade")
    /\ UNCHANGED <<fs, tree, futures, fut, cbs, digests, walkVars, cur, msaw, mgrVars, cmp,
                   sub_dirs, files, stack, dupe_groups>>

\* curr_dir_node.add_directory(sub_dir_node); tree[path] = sub_dir_node
RegisterDirectory ==
    /\ mainpc = "dmade"
    /\ paths' = [paths EXCEPT ![curr] = AddDirectory(@, Head(pdirs))]
    /\ tree' = (Head(pdirs) :> "dir") @@ tree
    /\ pdirs' = Tail(pdirs)
    /\ mainpc' = "files"
    /\ UNCHANGED <<fs, futures, fut, cbs, digests, todo, curr, pfiles, cur, msaw, mgrVars, cmp, treeVars>>

DirectoryDone ==
    /\ mainpc = "files"
    /\ pfiles = <<>>
    /\ pdirs = <<>>
    /\ mainpc' = "walk"
    /\ UNCHANGED <<fs, tree, paths, futures, fut, cbs, digests, walkVars, cur, msaw, mgrVars, cmp, treeVars>>

WalkComplete ==
    /\ mainpc = "walk"
    /\ todo = <<>>
    /\ mainpc' = "barrier"
    /\ UNCHANGED <<fs, tree, paths, futures, fut, cbs, digests, walkVars, cur, msaw, mgrVars, cmp, treeVars>>

\* ------------------------------------------------------------------ main: the barrier
\* A barrier that releases one digest early.
BarrierBlockedOffByOne == Cardinality(DOMAIN digests) + 1 < Len(futures)
\* while len(digests) < len(futures)
BarrierBlocked == Cardinality(DOMAIN digests) < Len(futures)

\* print the progress; time.sleep(1)
BarrierSleep ==
    /\ mainpc = "barrier"
    /\ BarrierBlocked
    /\ UNCHANGED vars

BarrierRelease ==
    /\ mainpc = "barrier"
    /\ ~BarrierBlocked
    /\ mainpc' = "wait"
    /\ UNCHANGED <<fs, tree, paths, futures, fut, cbs, digests, walkVars, cur, msaw, mgrVars, cmp, treeVars>>

\* concurrent.futures.wait(futures, None)
FuturesWait ==
    /\ mainpc = "wait"
    /\ \A i \in 1..Len(futures) : Done(futures[i])
    /\ mainpc' = "aggregate"
    /\ UNCHANGED <<fs, tree, paths, futures, fut, cbs, digests, walkVars, cur, msaw, mgrVars, cmp, treeVars>>

\* ------------------------------------------------------------------ DirectoryNode
\* A symmetric ratio, over the union of the two child sets.
CompareJaccard(a, b) ==
    IF Cardinality(paths[a]) = 0
    THEN [self |-> a, other |-> b, num |-> 0, den |-> 0, err |-> "ZeroDivisionError"]
    ELSE [self |-> a, other |-> b, num |-> Cardinality(paths[a] \cap paths[b]),
          den |-> Cardinality(paths[a] \cup paths[b]), err |-> "none"]
\* compare(self, other): intersection_length / num_paths, kept as the pair of
\* the two integers; the division raises when num_paths is 0.
Compare(a, b) ==
    IF Cardinality(paths[a]) = 0
    THEN [self |-> a, other |-> b, num |-> 0, den |-> 0, err |-> "ZeroDivisionError"]
    ELSE [self |-> a, other |-> b, num |-> Cardinality(paths[a] \cap paths[b]),
          den |-> Cardinality(paths[a]), err |-> "none"]

\* tree[A].compare(tree[B]) for the two directories main names.
Aggregate ==
    /\ mainpc = "aggregate"
    /\ \E a, b \in DOMAIN paths : cmp' = Compare(a, b)
    /\ mainpc' = "done"
    /\ UNCHANGED <<fs, tree, paths, futures, fut, cbs, digests, walkVars, cur, msaw, mgrVars, treeVars>>

\* ------------------------------------------------------------------ the executor
\* A worker ends get_digest(path) and the result thread sets the future's
\* result; a callback the future holds is run next.
TaskSucceeds(p) ==
    /\ mgrpc = "idle"
    /\ p \in DOMAIN fut
    /\ fut[p].st = "pending"
    /\ KindAt(fs, p) = "file"
    /\ fut' = [fut EXCEPT ![p] = Finished(GetDigest(fs, p))]
    /\ mgrcur' = p
    /\ mgrpc' = IF p \in cbs THEN "cb_test" ELSE "idle"
    /\ UNCHANGED <<fs, tree, paths, futures, cbs, digests, mainpc, walkVars, cur, msaw, mgrsaw, cmp, treeVars>>

\* get_digest raises (the file cannot be opened or read): the future takes
\* the exception; a callback it holds runs, f.result() raises in it, and the
\* exception is logged and dropped.
TaskFails(p) ==
    /\ mgrpc = "idle"
    /\ p \in DOMAIN fut
    /\ fut[p].st = "pending"
    /\ fut' = [fut EXCEPT ![p] = Failed]
    /\ UNCHANGED <<fs, tree, paths, futures, cbs, digests, mainpc, walkVars, cur, msaw, mgrVars, cmp, treeVars>>

\* _add_to_digests run by the result thread: the test
MgrCbTest ==
    /\ mgrpc = "cb_test"
    /\ mgrsaw' = NotInDigests(fut[mgrcur].val)
    /\ mgrpc' = "cb_write"
    /\ UNCHANGED <<fs, tree, paths, futures, fut, cbs, digests, mainpc, walkVars, cur, msaw, mgrcur, cmp, treeVars>>

\* _add_to_digests run by the result thread: the insertion
MgrCbWrite ==
    /\ mgrpc = "cb_write"
    /\ digests' = AddToDigests(fut[mgrcur].val, mgrcur, mgrsaw)
    /\ mgrpc' = "idle"
    /\ UNCHANGED <<fs, tree, paths, futures, fut, cbs, mainpc, walkVars, cur, msaw, mgrcur, mgrsaw, cmp, treeVars>>

\* ------------------------------------------------------------------ TreeNode: construction
\* TreeNode.__init__ of a directory: the children's names joined to the
\* directory's, each list sorted.
TreeNodeSubDirs(name, subListing) ==
    SortSeq([i \in 1..Len(subListing) |-> Join(name, subListing[i])], PathLess)
\* File paths kept in the order the names were listed, not sorted.
TreeNodeFilesAsListed(name, fileListing) ==
    [i \in 1..Len(fileListing) |-> Join(name, fileListing[i])]
TreeNodeFiles(name, fileListing) ==
    SortSeq([i \in 1..Len(fileListing) |-> Join(name, fileListing[i])], PathLess)

\* The orders in which os.walk may list a set of names.
Listings(S) == {s \in [1..Cardinality(S) -> S] : Range(s) = S}

\* TreeNode.__init__ of a file, lines 98-99: no check of the name;
\* digest_executor.submit(get_digest, name).
TreeNodeInitFile(name) ==
    /\ fut' = (name :> Pending) @@ fut
    /\ cur' = name
    /\ mainpc' = "taddcb"

\* TreeNode.__init__ of a directory: no check of the name; the sorted child
\* lists; self._digest = Future().
TreeNodeInitDir(name, subListing, fileListing) ==
    /\ sub_dirs' = (name :> TreeNodeSubDirs(name, subListing)) @@ sub_dirs
    /\ files' = (name :> TreeNodeFiles(name, fileListing)) @@ files
    /\ fut' = (name :> NewFuture) @@ fut

TreeInit ==
    /\ fs \in FileSystems
    /\ Globals
    /\ tree = <<>>
    /\ mainpc = "walk"

\* os.walk yields the next directory: tree[curr_dir] = TreeNode(tree, curr_dir,
\* sub_dirs, files, True, executor).
TreeWalkNext ==
    /\ mainpc = "walk"
    /\ todo # <<>>
    /\ LET d == Head(todo)
       IN  /\ \E sl \in Listings(WalkDirs(fs, d)), fl \in Listings(WalkFiles(fs, d)) :
                TreeNodeInitDir(d, sl, fl)
           /\ curr' = d
           /\ pfiles' = SortPaths({Join(d, n) : n \in WalkFiles(fs, d)})
           /\ todo' = SortPaths({Join(d, n) : n \in WalkDirs(fs, d)}) \o Tail(todo)
           /\ tree' = (d :> "dir") @@ tree
    /\ mainpc' = "tfiles"
    /\ UNCHANGED <<fs, paths, futures, cbs, digests, pdirs, cur, msaw, mgrVars, cmp,
                   stack, ret, dupe_groups>>

\* path = os.path.join(curr_dir, file); TreeNode(tree, path, ..., False, executor)
TreeFileSubmit ==
    /\ mainpc = "tfiles"
    /\ pfiles # <<>>
    /\ TreeNodeInitFile(Head(pfiles))
    /\ UNCHANGED <<fs, tree, paths, futures, cbs, digests, walkVars, msaw, mgrVars, cmp, treeVars>>

\* The second add_done_callback (line 101) on a future still pending; then
\* futures.append(self._digest). The first callback only prints.
TreeAddCallbackPending ==
    /\ mainpc = "taddcb"
    /\ fut[cur].st = "pending"
    /\ cbs' = cbs \cup {cur}
    /\ futures' = Append(futures, cur)
    /\ mainpc' = "tmade"
    /\ UNCHANGED <<fs, tree, paths, fut, digests, walkVars, cur, msaw, mgrVars, cmp, treeVars>>

TreeAddCallbackInline ==
    /\ mainpc = "taddcb"
    /\ fut[cur].st = "finished"
    /\ mainpc' = "tcb_test"
    /\ UNCHANGED <<fs, tree, paths, futures, fut, cbs, digests, walkVars, cur, msaw, mgrVars, cmp, treeVars>>

TreeAddCallbackRaises ==
    /\ mainpc = "taddcb"
    /\ fut[cur].st = "failed"
    /\ futures' = Append(futures, cur)
    /\ mainpc' = "tmade"
    /\ UNCHANGED <<fs, tree, paths, fut, cbs, digests, walkVars, cur, msaw, mgrVars, cmp, treeVars>>

\* TreeNode._add_to_digests run inline: the test
TreeCbTest ==
    /\ mainpc = "tcb_test"
    /\ msaw' = NotInDigests(fut[cur].val)
    /\ mainpc' = "tcb_write"
    /\ UNCHANGED <<fs, tree, paths, futures, fut, cbs, digests, walkVars, cur, mgrVars, cmp, treeVars>>

\* TreeNode._add_to_digests run inline: the insertion; then
\* futures.append(self._digest).
TreeCbWrite ==
    /\ mainpc = "tcb_write"
    /\ digests' = AddToDigests(fut[cur].val, cur, msaw)
    /\ futures' = Append(futures, cur)
    /\ mainpc' = "tmade"
    /\ UNCHANGED <<fs, tree, paths, fut, cbs, walkVars, cur, msaw, mgrVars, cmp, treeVars>>

\* tree[path] = node
TreeRegisterFile ==
    /\ mainpc = "tmade"
    /\ tree' = (cur :> "file") @@ tree
    /\ pfiles' = Tail(pfiles)
    /\ mainpc' = "tfiles"
    /\ UNCHANGED <<fs, paths, futures, fut, cbs, digests, todo, curr, pdirs, cur, msaw, mgrVars, cmp, treeVars>>

TreeDirectoryDone ==
    /\ mainpc = "tfiles"
    /\ pfiles = <<>>
    /\ mainpc' = "walk"
    /\ UNCHANGED <<fs, tree, paths, futures, fut, cbs, digests, walkVars, cur, msaw, mgrVars, cmp, treeVars>>

\* ------------------------------------------------------------------ TreeNode.digest
\* One activation of digest() or report(): the node, where the activation
\* is, the next child, the fold's accumulator (report: the node's digest),
\* and what `digest not in digests` saw.
Frame(kind, node, pc) ==
    [kind |-> kind, node |-> node, pc |-> pc, idx |-> 1, acc |-> Seed, saw |-> FALSE]
Top(t) == stack[t][Len(stack[t])]
Below(t) == SubSeq(stack[t], 1, Len(stack[t]) - 1)
At(t, kind, pc) == stack[t] # <<>> /\ Top(t).kind = kind /\ Top(t).pc = pc
SetTop(t, f) == [stack EXCEPT ![t] = Append(Below(t), f)]
Push(t, f) == [stack EXCEPT ![t] = Append(@, f)]

\* A fold that takes the files before the sub-directories.
ChildrenFilesFirst(n) == files[n] \o sub_dirs[n]
\* itertools.chain(sub_dir_node_digests, file_node_digests): the children in
\* the order the fold takes them.
Children(n) == sub_dirs[n] \o files[n]

\* An exception leaves every activation of the thread.
Raise(t, e) ==
    /\ stack' = [stack EXCEPT ![t] = <<>>]
    /\ ret' = [ret EXCEPT ![t] = [op |-> stack[t][1].kind, node |-> stack[t][1].node,
                                  val |-> <<>>, err |-> e]]

\* The activations `base` once the digest() their top one called has
\* returned v: the parent directory's fold takes it as its next item, report()
\* as the key of its look-up.
Deliver(base, v) ==
    IF base = <<>> THEN <<>>
    ELSE LET parent == base[Len(base)]
             resumed == IF parent.kind = "digest"
                        THEN [parent EXCEPT !.acc = Chain(@, v), !.idx = @ + 1]
                        ELSE [parent EXCEPT !.acc = v, !.pc = "r_group"]
         IN  Append(SubSeq(base, 1, Len(base) - 1), resumed)

\* digest() of node n returns v to the activations `base` of thread t.
ReturnDigest(t, base, n, v) ==
    /\ stack' = [stack EXCEPT ![t] = Deliver(base, v)]
    /\ ret' = IF base = <<>>
              THEN [ret EXCEPT ![t] = [op |-> "digest", node |-> n, val |-> v, err |-> "none"]]
              ELSE ret

\* A digest() that takes the empty string for the digest of a failed task.
InvokeSwallowsFailure(t, base, n) ==
    IF Done(n)
    THEN ReturnDigest(t, base, n, fut[n].val)
    ELSE /\ stack' = [stack EXCEPT ![t] =
                Append(base, Frame("digest", n, IF tree[n] = "dir" THEN "fold" ELSE "result"))]
         /\ ret' = IF base = <<>> THEN [ret EXCEPT ![t] = NoCall] ELSE ret

\* Thread t, with activations `base`, calls digest() of node n.
\*   if self.is_dir and not self._digest.done(): a directory not yet resolved
\*     starts its fold;
\*   return self._digest.result(): a resolved future returns its value or
\*     raises its exception at once, a file's pending future is waited for.
Invoke(t, base, n) ==
    IF Done(n)
    THEN IF fut[n].st = "failed"
         THEN /\ stack' = [stack EXCEPT ![t] = <<>>]
              /\ ret' = [ret EXCEPT ![t] =
                            [op |-> IF base = <<>> THEN "digest" ELSE base[1].kind,
                             node |-> IF base = <<>> THEN n ELSE base[1].node,
                             val |-> <<>>, err |-> "OSError"]]
         ELSE ReturnDigest(t, base, n, fut[n].val)
    ELSE /\ stack' = [stack EXCEPT ![t] =
                Append(base, Frame("digest", n, IF tree[n] = "dir" THEN "fold" ELSE "result"))]
         /\ ret' = IF base = <<>> THEN [ret EXCEPT ![t] = NoCall] ELSE ret

\* A client calls tree[n].digest().
CallDigest(t, n) ==
    /\ stack[t] = <<>>
    /\ n \in DOMAIN tree
    /\ Invoke(t, <<>>, n)
    /\ UNCHANGED <<fs, tree, paths, futures, fut, cbs, digests, mainpc, walkVars, cur, msaw,
                   mgrVars, cmp, sub_dirs, files, dupe_groups>>

\* A fold that passes over a child that `tree` does not hold.
DigestFoldSkipsMissing(t) ==
    /\ At(t, "digest", "fold")
    /\ Top(t).idx <= Len(Children(Top(t).node))
    /\ LET child == Children(Top(t).node)[Top(t).idx]
       IN  IF child \notin DOMAIN tree
           THEN stack' = SetTop(t, [Top(t) EXCEPT !.idx = @ + 1]) /\ UNCHANGED ret
           ELSE Invoke(t, stack[t], child)
    /\ UNCHANGED <<fs, tree, paths, futures, fut, cbs, digests, mainpc, walkVars, cur, msaw,
                   mgrVars, cmp, sub_dirs, files, dupe_groups>>

\* The reduce asks for the next child's digest: self.tree[path], then
\* node.digest().
DigestFold(t) ==
    /\ At(t, "digest", "fold")
    /\ Top(t).idx <= Len(Children(Top(t).node))
    /\ LET child == Children(Top(t).node)[Top(t).idx]
       IN  IF child \notin DOMAIN tree
           THEN Raise(t, "KeyError")
           ELSE Invoke(t, stack[t], child)
    /\ UNCHANGED <<fs, tree, paths, futures, fut, cbs, digests, mainpc, walkVars, cur, msaw,
                   mgrVars, cmp, sub_dirs, files, dupe_groups>>

\* The reduce has taken every child: self._digest.set_result(digest), which
\* raises InvalidStateError on a future that is already resolved.
DigestSetResult(t) ==
    /\ At(t, "digest", "fold")
    /\ Top(t).idx > Len(Children(Top(t).node))
    /\ IF Done(Top(t).node)
       THEN Raise(t, "InvalidStateError") /\ UNCHANGED fut
       ELSE /\ fut' = [fut EXCEPT ![Top(t).node] = Finished(Top(t).acc)]
            /\ stack' = SetTop(t, [Top(t) EXCEPT !.pc = "add_test"])
            /\ UNCHANGED ret
    /\ UNCHANGED <<fs, tree, paths, futures, cbs, digests, mainpc, walkVars, cur, msaw,
                   mgrVars, cmp, sub_dirs, files, dupe_groups>>

\* self._add_to_digests(digest): the test
DigestAddTest(t) ==
    /\ At(t, "digest", "add_test")
    /\ stack' = SetTop(t, [Top(t) EXCEPT !.saw = NotInDigests(Top(t).acc), !.pc = "add_write"])
    /\ UNCHANGED <<fs, tree, paths, futures, fut, cbs, digests, mainpc, walkVars, cur, msaw,
                   mgrVars, cmp, sub_dirs, files, ret, dupe_groups>>

\* self._add_to_digests(digest): the insertion; then
\* return self._digest.result().
DigestAddWrite(t) ==
    /\ At(t, "digest", "add_write")
    /\ digests' = AddToDigests(Top(t).acc, Top(t).node, Top(t).saw)
    /\ ReturnDigest(t, Below(t), Top(t).node, fut[Top(t).node].val)
    /\ UNCHANGED <<fs, tree, paths, futures, fut, cbs, mainpc, walkVars, cur, msaw,
                   mgrVars, cmp, sub_dirs, files, dupe_groups>>

\* return self._digest.result() of a file whose future was pending: waits
\* for the future, then returns its value or raises its exception.
DigestResult(t) ==
    /\ At(t, "digest", "result")
    /\ Done(Top(t).node)
    /\ IF fut[Top(t).node].st = "failed"
       THEN Raise(t, "OSError")
       ELSE ReturnDigest(t, Below(t), Top(t).node, fut[Top(t).node].val)
    /\ UNCHANGED <<fs, tree, paths, futures, fut, cbs, digests, mainpc, walkVars, cur, msaw,
                   mgrVars, cmp, sub_dirs, files, dupe_groups>>

\* ------------------------------------------------------------------ TreeNode.report
\* A client calls tree[n].report().
CallReport(t, n) ==
    /\ stack[t] = <<>>
    /\ n \in DOMAIN tree
    /\ stack' = Push(t, Frame("report", n, "r_digest"))
    /\ ret' = [ret EXCEPT ![t] = NoCall]
    /\ UNCHANGED <<fs, tree, paths, futures, fut, cbs, digests, mainpc, walkVars, cur, msaw,
                   mgrVars, cmp, sub_dirs, files, dupe_groups>>

\* self.digest()
ReportDigest(t) ==
    /\ At(t, "report", "r_digest")
    /\ Invoke(t, stack[t], Top(t).node)
    /\ UNCHANGED <<fs, tree, paths, futures, fut, cbs, digests, mainpc, walkVars, cur, msaw,
                   mgrVars, cmp, sub_dirs, files, dupe_groups>>

\* TreeNode.__lt__(self, other) is self.name < other.path, and a TreeNode has
\* no attribute `path`: sorting a list of two or more TreeNodes raises.
SortRaises(nodes) == Cardinality(nodes) >= 2

\* dupes = digests[self.digest()]; copy; sort; dupe_groups.add(tuple(dupes))
ReportGroup(t) ==
    /\ At(t, "report", "r_group")
    /\ LET d == Top(t).acc
       IN  IF d \notin DOMAIN digests
           THEN Raise(t, "KeyError") /\ UNCHANGED dupe_groups
           ELSE IF SortRaises(digests[d])
           THEN Raise(t, "AttributeError") /\ UNCHANGED dupe_groups
           ELSE /\ dupe_groups' = dupe_groups \cup {SortPaths(digests[d])}
                /\ stack' = SetTop(t, [Top(t) EXCEPT !.pc = "r_children", !.idx = 1])
                /\ UNCHANGED ret
    /\ UNCHANGED <<fs, tree, paths, futures, fut, cbs, digests, mainpc, walkVars, cur, msaw,
                   mgrVars, cmp, sub_dirs, files>>

\* for sub_dir in self.sub_dirs: self.tree[sub_dir].report(); the same for
\* self.files; report() returns after the last child.
ReportChildren(t) ==
    /\ At(t, "report", "r_children")
    /\ LET f == Top(t)
           cs == IF tree[f.node] = "dir" THEN Children(f.node) ELSE <<>>
       IN  IF f.idx <= Len(cs)
           THEN IF cs[f.idx] \notin DOMAIN tree
                THEN Raise(t, "KeyError")
                ELSE /\ stack' = [stack EXCEPT ![t] =
                            Append(Append(Below(t), [f EXCEPT !.idx = @ + 1]),
                                   Frame("report", cs[f.idx], "r_digest"))]
                     /\ UNCHANGED ret
           ELSE IF Below(t) = <<>>
           THEN /\ stack' = [stack EXCEPT ![t] = <<>>]
                /\ ret' = [ret EXCEPT ![t] = [op |-> "report", node |-> f.node,
                                              val |-> <<>>, err |-> "none"]]
           ELSE stack' = [stack EXCEPT ![t] = Below(t)] /\ UNCHANGED ret
    /\ UNCHANGED <<fs, tree, paths, futures, fut, cbs, digests, mainpc, walkVars, cur, msaw,
                   mgrVars, cmp, sub_dirs, files, dupe_groups>>

\* The executor's worker processes and its result thread.
ExecutorNext ==
    \/ \E p \in AllPaths \cup {EmptyPath} : TaskSucceeds(p)
    \/ \E p \in AllPaths \cup {EmptyPath} : TaskFails(p)
    \/ MgrCbTest
    \/ MgrCbWrite

\* ------------------------------------------------------------------ a client of the classes
\* A client that constructs nodes itself, at the paths CtorPaths, each path
\* once, and registers what it made in `tree`.
CtorPaths == {EmptyPath} \cup Level1

ClientInit ==
    /\ fs \in {f \in FileSystems : \A p \in Level2 : f[p] = Absent}
    /\ Globals
    /\ tree = <<>>
    /\ mainpc = "client"

\* FileNode(p, executor)
ClientFileNode(p) ==
    /\ mainpc = "client"
    /\ p \notin DOMAIN tree
    /\ FileNodeInit(p, "client")
    /\ UNCHANGED <<fs, tree, paths, futures, cbs, digests, walkVars, msaw, mgrVars, cmp,
                   sub_dirs, files, stack, dupe_groups>>

ClientRegisterFile ==
    /\ mainpc \in {"made", "tmade"}
    /\ tree' = (cur :> "file") @@ tree
    /\ mainpc' = "client"
    /\ UNCHANGED <<fs, paths, futures, fut, cbs, digests, walkVars, cur, msaw, mgrVars, cmp, treeVars>>

\* DirectoryNode(p)
ClientDirectoryNode(p) ==
    /\ mainpc = "client"
    /\ p \notin DOMAIN tree
    /\ DirectoryNodeInit(p, "client", "client")
    /\ tree' = IF p = EmptyPath THEN tree ELSE (p :> "dir") @@ tree
    /\ UNCHANGED <<fs, futures, fut, cbs, digests, walkVars, cur, msaw, mgrVars, cmp,
                   sub_dirs, files, stack, dupe_groups>>

\* TreeNode(tree, p, None, None, False, executor)
ClientTreeNodeFile(p) ==
    /\ mainpc = "client"
    /\ p \notin DOMAIN tree
    /\ TreeNodeInitFile(p)
    /\ UNCHANGED <<fs, tree, paths, futures, cbs, digests, walkVars, msaw, mgrVars, cmp, treeVars>>

\* TreeNode(tree, p, sub_dirs, files, True, executor)
ClientTreeNodeDir(p) ==
    /\ mainpc = "client"
    /\ p \notin DOMAIN tree
    /\ \E sl \in Listings(WalkDirs(fs, p)), fl \in Listings(WalkFiles(fs, p)) :
            TreeNodeInitDir(p, sl, fl)
    /\ tree' = (p :> "dir") @@ tree
    /\ UNCHANGED <<fs, paths, futures, cbs, digests, mainpc, walkVars, cur, msaw, mgrVars, cmp,
                   stack, ret, dupe_groups>>

CtorNext ==
    \/ \E p \in CtorPaths : ClientFileNode(p)
    \/ \E p \in CtorPaths : ClientDirectoryNode(p)
    \/ \E p \in CtorPaths : ClientTreeNodeFile(p)
    \/ \E p \in CtorPaths : ClientTreeNodeDir(p)
    \/ ClientRegisterFile
    \/ AddCallbackPending
    \/ AddCallbackInline
    \/ AddCallbackRaises
    \/ MainCbTest
    \/ MainCbWrite
    \/ TreeAddCallbackPending
    \/ TreeAddCallbackInline
    \/ TreeAddCallbackRaises
    \/ TreeCbTest
    \/ TreeCbWrite
    \/ ExecutorNext

SpecCtor == ClientInit /\ [][CtorNext]_vars

\* A client of DirectoryNode: it makes the directory nodes of Level1 and of
\* Level2, adds nodes of Level2 to those of Level1 and compares.
CompareInit ==
    /\ fs = [p \in AllPaths |-> DirEntry]
    /\ Globals
    /\ tree = <<>>
    /\ mainpc = "client"

\* d.add_directory(c)
ClientAddDirectory(d, c) ==
    /\ d \in DOMAIN paths
    /\ c \in DOMAIN paths
    /\ paths' = [paths EXCEPT ![d] = AddDirectory(@, c)]
    /\ UNCHANGED <<fs, tree, futures, fut, cbs, digests, mainpc, walkVars, cur, msaw, mgrVars,
                   cmp, treeVars>>

\* a.compare(b)
ClientCompare(a, b) ==
    /\ a \in DOMAIN paths
    /\ b \in DOMAIN paths
    /\ cmp' = Compare(a, b)
    /\ UNCHANGED <<fs, tree, paths, futures, fut, cbs, digests, mainpc, walkVars, cur, msaw,
                   mgrVars, treeVars>>

CompareNext ==
    \/ \E p \in AllPaths : ClientDirectoryNode(p)
    \/ \E d \in Level1, c \in Level2 : ClientAddDirectory(d, c)
    \/ \E a, b \in Level1 : ClientCompare(a, b)

SpecCompare == CompareInit /\ [][CompareNext]_vars

\* ------------------------------------------------------------------ specifications
\* main as it stands: FileNode and DirectoryNode, the barrier, compare.
MainNext ==
    \/ MainStart
    \/ WalkNext
    \/ FileNodeSubmit
    \/ AddCallbackPending
    \/ AddCallbackInline
    \/ AddCallbackRaises
    \/ MainCbTest
    \/ MainCbWrite
    \/ RegisterFile
    \/ MakeDirectory
    \/ RegisterDirectory
    \/ DirectoryDone
    \/ WalkComplete
    \/ BarrierSleep
    \/ BarrierRelease
    \/ FuturesWait
    \/ Aggregate
    \/ ExecutorNext

SpecMain == MainInit /\ [][MainNext]_vars

\* The walk of a client that builds the tree of TreeNodes.
TreeBuildNext ==
    \/ TreeWalkNext
    \/ TreeFileSubmit
    \/ TreeAddCallbackPending
    \/ TreeAddCallbackInline
    \/ TreeAddCallbackRaises
    \/ TreeCbTest
    \/ TreeCbWrite
    \/ TreeRegisterFile
    \/ TreeDirectoryDone
    \/ WalkComplete

DigestNext(t) ==
    \/ DigestFold(t)
    \/ DigestSetResult(t)
    \/ DigestAddTest(t)
    \/ DigestAddWrite(t)
    \/ DigestResult(t)

Built == mainpc = "barrier"
Nodes == AllPaths \cup {RootDir}

\* TreeNode under a client thread that calls digest() on the nodes of the
\* built tree at any time, while the hashing goes on.
TreeNext ==
    \/ TreeBuildNext
    \/ ExecutorNext
    \/ \E n \in Nodes : Built /\ CallDigest("t1", n)
    \/ DigestNext("t1")

SpecTree == TreeInit /\ [][TreeNext]_vars

\* The same with two client threads.
ConcNext ==
    \/ TreeBuildNext
    \/ ExecutorNext
    \/ \E t \in Callers : \E n \in Nodes : Built /\ CallDigest(t, n)
    \/ \E t \in Callers : DigestNext(t)

ConcInit ==
    /\ fs \in {f \in FileSystems : NodeCount(f) <= MaxConcNodes}
    /\ Globals
    /\ tree = <<>>
    /\ mainpc = "walk"

SpecConc == ConcInit /\ [][ConcNext]_vars

\* TreeNode under a client thread that calls digest() at any time, the walk
\* that registers the nodes not yet finished.
EarlyInit ==
    /\ fs \in {f \in FileSystems : NodeCount(f) <= MaxEarlyNodes}
    /\ Globals
    /\ tree = <<>>
    /\ mainpc = "walk"

EarlyNext ==
    \/ TreeBuildNext
    \/ ExecutorNext
    \/ \E n \in Nodes : CallDigest("t1", n)
    \/ DigestNext("t1")

SpecEarly == EarlyInit /\ [][EarlyNext]_vars

\* TreeNode under a client thread that calls digest() and report() on the
\* nodes of the built tree at any time, while the hashing goes on.
ReportInit ==
    /\ fs \in {f \in FileSystems : NodeCount(f) <= MaxReportNodes}
    /\ Globals
    /\ tree = <<>>
    /\ mainpc = "walk"

ReportNext ==
    \/ TreeBuildNext
    \/ ExecutorNext
    \/ \E n \in Nodes : Built /\ CallDigest("t1", n)
    \/ \E n \in Nodes : Built /\ CallReport("t1", n)
    \/ DigestNext("t1")
    \/ ReportDigest("t1")
    \/ ReportGroup("t1")
    \/ ReportChildren("t1")

SpecReport == ReportInit /\ [][ReportNext]_vars

\* main with TreeNode (the report of lines 183-184): the walk, the barrier,
\* then digest() and report() called from the main thread. Past the barrier
\* no future is pending, and digest() never waits.
SeqNext ==
    \/ TreeBuildNext
    \/ ExecutorNext
    \/ BarrierSleep
    \/ BarrierRelease
    \/ FuturesWait
    \/ \E n \in Nodes : mainpc = "aggregate" /\ CallDigest("main", n)
    \/ \E n \in Nodes : mainpc = "aggregate" /\ CallReport("main", n)
    \/ DigestFold("main")
    \/ DigestSetResult("main")
    \/ DigestAddTest("main")
    \/ DigestAddWrite("main")
    \/ ReportDigest("main")
    \/ ReportGroup("main")
    \/ ReportChildren("main")

SpecSeq == TreeInit /\ [][SeqNext]_vars

\* ------------------------------------------------------------------ properties
Last(p) == p[Len(p)]
Resolved(n) == n \in DOMAIN fut /\ fut[n].st = "finished"

\* The completion callback of p's future is about to run or running, in the
\* result thread or inline in the main thread.
InCallback(p) ==
    \/ mgrpc \in {"cb_test", "cb_write"} /\ mgrcur = p
    \/ mainpc \in {"addcb", "cb_test", "cb_write", "taddcb", "tcb_test", "tcb_write"} /\ cur = p
\* p's hashing task has succeeded and its completion callback has run.
CallbackRan(p) == Resolved(p) /\ ~InCallback(p)
AllLeavesSucceeded == \A i \in 1..Len(futures) : CallbackRan(futures[i])

\* Thread activations of digest() on node n that are in the fold or past it.
Folding(t, n) ==
    \E i \in 1..Len(stack[t]) :
        /\ stack[t][i].kind = "digest"
        /\ stack[t][i].node = n
        /\ stack[t][i].pc \in {"fold", "add_test", "add_write"}
\* Some thread is between set_result and the end of _add_to_digests of n.
Registering(n) ==
    \E t \in Threads : \E i \in 1..Len(stack[t]) :
        /\ stack[t][i].kind = "digest"
        /\ stack[t][i].node = n
        /\ stack[t][i].pc \in {"add_test", "add_write"}

\* The digest of the node at p as the file contents and the directory
\* structure on disk determine it: SHA-256 of a file's bytes; for a directory
\* the chain over its sub-directories in sorted order, then its files in
\* sorted order, from the empty string.
RECURSIVE ExpectedDigest(_)
ExpectedDigest(p) ==
    IF KindAt(fs, p) = "file" THEN Sha256(fs[p].content)
    ELSE LET subs == SortPaths({Join(p, n) : n \in WalkDirs(fs, p)})
             fls == SortPaths({Join(p, n) : n \in WalkFiles(fs, p)})
             cs == subs \o fls
         IN  Fold(<<>>, [i \in 1..Len(cs) |-> ExpectedDigest(cs[i])])

\* C1: once the walk has finished and every submitted hashing task has
\* succeeded and run its completion callback, the barrier of main does not
\* block (from such a state nothing but the barrier's own test can still
\* change the state, so a barrier that blocks there blocks forever).
C1_BarrierReleases ==
    (mainpc = "barrier" /\ AllLeavesSucceeded) => ~BarrierBlocked

\* C2: when every hashing task has ended, one or more of them in failure,
\* and no callback is running, the barrier does not block and every task that
\* succeeded has its file registered in `digests` under its digest.
C2_FailedTaskCountsAsResolved ==
    ( /\ mainpc = "barrier"
      /\ mgrpc = "idle"
      /\ \A i \in 1..Len(futures) : Done(futures[i])
      /\ \E i \in 1..Len(futures) : fut[futures[i]].st = "failed" )
    => /\ ~BarrierBlocked
       /\ \A i \in 1..Len(futures) :
            Resolved(futures[i]) =>
                /\ fut[futures[i]].val \in DOMAIN digests
                /\ futures[i] \in digests[fut[futures[i]].val]

\* C3: two files with the same bytes resolve to the same digest and, once
\* both completion callbacks have run, both are members of the set `digests`
\* holds under that digest.
C3_SameCluster ==
    \A p, q \in DOMAIN fut :
        ( /\ p # q
          /\ KindAt(fs, p) = "file"
          /\ KindAt(fs, q) = "file"
          /\ fs[p].content = fs[q].content
          /\ CallbackRan(p)
          /\ CallbackRan(q) )
        => /\ fut[p].val = fut[q].val
           /\ fut[p].val \in DOMAIN digests
           /\ {p, q} \subseteq digests[fut[p].val]

\* C4: digest() is idempotent under concurrent calls: no call ends in
\* InvalidStateError, no two threads fold, memoize or register the same node,
\* and every value a call returns is the node's memoized digest.
C4_DigestIdempotent ==
    /\ \A t \in Callers : ret[t].err # "InvalidStateError"
    /\ \A n \in Nodes : \A t1, t2 \in Callers : (Folding(t1, n) /\ Folding(t2, n)) => t1 = t2
    /\ \A t \in Callers :
        (ret[t].op = "digest" /\ ret[t].err = "none") => ret[t].val = fut[ret[t].node].val

\* C5: the digest a directory resolves to, and the value digest() returns,
\* is the chain over its children's digests in sorted order, sub-directories
\* first and then files, whatever the order in which the hashing tasks ended
\* and whenever digest() was called.
C5_DirectoryDigestIsPure ==
    /\ \A d \in DOMAIN sub_dirs : Resolved(d) => fut[d].val = ExpectedDigest(d)
    /\ \A t \in Threads :
        (ret[t].op = "digest" /\ ret[t].err = "none") => ret[t].val = ExpectedDigest(ret[t].node)

\* A directory with a sub-directory and a file is resolved, by a call of
\* digest() on it that has returned.
C5_Witness ==
    \E d \in DOMAIN sub_dirs :
        /\ Resolved(d)
        /\ sub_dirs[d] # <<>>
        /\ files[d] # <<>>
        /\ ret["t1"] = [op |-> "digest", node |-> d, val |-> fut[d].val, err |-> "none"]

ChildNames(s) == [i \in 1..Len(s) |-> Last(s[i])]
\* The two directories list the same child names and the children of the
\* same name are resolved to the same digest.
SameStructure(d1, d2) ==
    /\ ChildNames(sub_dirs[d1]) = ChildNames(sub_dirs[d2])
    /\ ChildNames(files[d1]) = ChildNames(files[d2])
    /\ \A i \in 1..Len(Children(d1)) :
        /\ Resolved(Children(d1)[i])
        /\ Resolved(Children(d2)[i])
        /\ fut[Children(d1)[i]].val = fut[Children(d2)[i]].val

\* C6: two resolved directories at different paths with the same child names
\* and the same digests below have the same digest and, once neither is in
\* the course of being registered, are both members of the set `digests`
\* holds under it.
C6_StructuralEquality ==
    \A d1, d2 \in DOMAIN sub_dirs :
        (d1 # d2 /\ Resolved(d1) /\ Resolved(d2) /\ SameStructure(d1, d2))
        => /\ fut[d1].val = fut[d2].val
           /\ (~Registering(d1) /\ ~Registering(d2))
                => /\ fut[d1].val \in DOMAIN digests
                   /\ {d1, d2} \subseteq digests[fut[d1].val]

\* C7: when report() called on the root of the built tree has ended, it has
\* ended without error, and for every node of the tree dupe_groups holds
\* exactly one group for the node's digest, the sorted members of the set
\* `digests` holds under that digest.
C7_ReportCatalog ==
    (stack["main"] = <<>> /\ ret["main"].op = "report" /\ ret["main"].node = RootDir)
    => /\ ret["main"].err = "none"
       /\ \A n \in DOMAIN tree :
            /\ Resolved(n)
            /\ fut[n].val \in DOMAIN digests
            /\ SortPaths(digests[fut[n].val]) \in dupe_groups
            /\ Cardinality({g \in dupe_groups : Range(g) = digests[fut[n].val]}) = 1

\* C8: a.compare(b) changes no directory's child set and, for a with
\* children, returns |children(a) /\ children(b)| / |children(a)|: a ratio
\* between 0 and 1, which is 1 when a's children are a subset of b's and
\* when b is a.
C8_Similarity ==
    [][cmp' # cmp =>
        LET a == cmp'.self
            b == cmp'.other
        IN  /\ paths' = paths
            /\ paths[a] # {} =>
                /\ cmp'.err = "none"
                /\ cmp'.num = Cardinality(paths[a] \cap paths[b])
                /\ cmp'.den = Cardinality(paths[a])
                /\ 0 <= cmp'.num
                /\ cmp'.num <= cmp'.den
                /\ (paths[a] \subseteq paths[b]) => cmp'.num = cmp'.den
                /\ a = b => cmp'.num = cmp'.den]_vars

\* compare has returned 1.0 for a directory with two children, all of them
\* children of another directory that has more.
C8_Witness ==
    /\ cmp.err = "none"
    /\ cmp.self # cmp.other
    /\ cmp.den >= 2
    /\ cmp.num = cmp.den
    /\ paths[cmp.self] \subseteq paths[cmp.other]
    /\ paths[cmp.self] # paths[cmp.other]

\* C9: no node of any class exists at the empty path: none is registered in
\* `tree`, none has submitted a hashing task or appended to `futures`, none
\* holds child lists, none is in `digests`.
C9_EmptyPathRejected ==
    /\ EmptyPath \notin DOMAIN tree
    /\ EmptyPath \notin DOMAIN fut
    /\ EmptyPath \notin Range(futures)
    /\ EmptyPath \notin DOMAIN paths
    /\ EmptyPath \notin DOMAIN sub_dirs
    /\ \A d \in DOMAIN digests : EmptyPath \notin digests[d]

EmptyDirs == {d \in DOMAIN sub_dirs : sub_dirs[d] = <<>> /\ files[d] = <<>>}

\* C10: a directory with no sub-directories and no files resolves to the
\* fold's seed, the empty string, through zero iterations of the fold:
\* digest() returns it, memoizes it, and registers the directory in `digests`
\* under it.
C10_EmptyDirectoryDigest ==
    \A d \in EmptyDirs :
        /\ Resolved(d) => fut[d].val = <<>>
        /\ (Resolved(d) /\ ~Registering(d)) => (<<>> \in DOMAIN digests /\ d \in digests[<<>>])
        /\ \A t \in Threads :
            (ret[t].op = "digest" /\ ret[t].node = d /\ ret[t].err = "none") => ret[t].val = <<>>
        /\ \A t \in Threads : \A i \in 1..Len(stack[t]) :
            (stack[t][i].kind = "digest" /\ stack[t][i].node = d)
                => (stack[t][i].idx = 1 /\ stack[t][i].acc = <<>>)

\* digest() called on an empty directory has returned the empty string, and
\* the directory is resolved and registered.
C10_Witness ==
    \E d \in EmptyDirs :
        /\ Resolved(d)
        /\ <<>> \in DOMAIN digests
        /\ d \in digests[<<>>]
        /\ ret["t1"] = [op |-> "digest", node |-> d, val |-> <<>>, err |-> "none"]

PastBarrier == mainpc \in {"wait", "aggregate", "done"}

\* C11: in every state after the barrier of main has released, every file
\* node made by the walk has a resolved digest and is a member of the set
\* `digests` holds under that digest.
C11_BarrierSafety ==
    PastBarrier =>
        \A p \in DOMAIN tree :
            tree[p] = "file" =>
                /\ Resolved(p)
                /\ fut[p].val \in DOMAIN digests
                /\ p \in digests[fut[p].val]

\* The barrier has released with two or more file nodes in the tree.
C11_Witness ==
    /\ PastBarrier
    /\ Cardinality({p \in DOMAIN tree : tree[p] = "file"}) >= 2

\* The threads that are inside _add_to_digests for node n.
Inserters(n) ==
    {t \in Threads : \E i \in 1..Len(stack[t]) :
        /\ stack[t][i].kind = "digest"
        /\ stack[t][i].node = n
        /\ stack[t][i].pc \in {"add_test", "add_write"}}
InsertersCount(n) ==
    Cardinality(Inserters(n))
    + (IF mgrpc \in {"cb_test", "cb_write"} /\ mgrcur = n THEN 1 ELSE 0)
    + (IF mainpc \in {"cb_test", "cb_write", "tcb_test", "tcb_write"} /\ cur = n THEN 1 ELSE 0)
\* n is resolved and its insertion has run to its end.
Settled(n) == Resolved(n) /\ ~InCallback(n) /\ ~Registering(n)
\* No member of a cluster is there under another digest than its own.
MembershipSound ==
    /\ \A d \in DOMAIN digests : \A n \in digests[d] : Resolved(n) /\ fut[n].val = d
    /\ \A d1, d2 \in DOMAIN digests : d1 # d2 => digests[d1] \cap digests[d2] = {}
    /\ \A n \in Nodes : InsertersCount(n) <= 1
\* The step that ends the insertion of n has put n under its digest, and an
\* insertion that has ended is never run again.
InsertedOnce ==
    \A n \in Nodes :
        /\ (InsertersCount(n) = 1 /\ InsertersCount(n)' = 0 /\ Resolved(n)')
            => (fut'[n].val \in DOMAIN digests' /\ n \in digests'[fut'[n].val])
        /\ Settled(n) => Settled(n)'

\* C12: in every reachable state a node is a member of the set stored under
\* digest d only if its own digest has resolved to d, no node is a member of
\* two sets, and a node is inserted exactly once: one thread at a time runs
\* its insertion, the insertion puts it under its digest, and once ended it
\* never runs again.
C12_MembershipInvariant == [](MembershipSound) /\ [][InsertedOnce]_vars

\* A cluster of two nodes exists and a directory has been inserted.
C12_Witness ==
    /\ \E d \in DOMAIN digests : Cardinality(digests[d]) >= 2
    /\ \E d \in DOMAIN digests : \E n \in digests[d] : n \in DOMAIN sub_dirs

Clusters == UNION {digests[d] : d \in DOMAIN digests}

\* Directory d, or a directory below it, lists a child that `tree` does not
\* hold.
RECURSIVE MissingBelow(_)
MissingBelow(d) ==
    /\ d \in DOMAIN sub_dirs
    /\ \E i \in 1..Len(Children(d)) :
        \/ Children(d)[i] \notin DOMAIN tree
        \/ MissingBelow(Children(d)[i])

RECURSIVE FailedBelow(_)
FailedBelow(n) ==
    \/ n \in DOMAIN fut /\ fut[n].st = "failed"
    \/ /\ n \in DOMAIN sub_dirs
       /\ \E i \in 1..Len(Children(n)) : FailedBelow(Children(n)[i])

\* C14: a file whose hashing task failed, and every directory above it, is
\* never memoized with a digest and never a member of `digests`, and every
\* call of digest() on one of them that has ended, the first or a later one,
\* has ended in the task's error.
C14_FailedLeafPropagates ==
    /\ \A n \in DOMAIN fut : FailedBelow(n) => (~Resolved(n) /\ n \notin Clusters)
    /\ \A d \in DOMAIN sub_dirs : FailedBelow(d) => ~Done(d)
    /\ \A t \in Threads :
        (stack[t] = <<>> /\ ret[t].op = "digest" /\ FailedBelow(ret[t].node))
            => ret[t].err = "OSError"

\* digest() on the root has ended in the error of a file two levels down,
\* with the directory in between unresolved.
C14_Witness ==
    /\ ret["t1"] = [op |-> "digest", node |-> RootDir, val |-> <<>>, err |-> "OSError"]
    /\ \E p \in Level2 : /\ p \in DOMAIN fut
                         /\ fut[p].st = "failed"
                         /\ ~Done(Parent(p))
                         /\ Parent(p) \notin Clusters
    /\ ~Done(RootDir)

\* The digests of the resolved nodes listed in cs, in the order of cs.
DigestsOf(cs) == [i \in 1..Len(cs) |-> fut[cs[i]].val]

\* C15: whatever order the names of a directory's sub-directories and files
\* are supplied in, the child lists the node holds are the same sorted lists,
\* and the digest it resolves to is the chain over them: the listing order
\* does not affect the digest.
C15_ListingOrderIrrelevant ==
    \A d \in DOMAIN sub_dirs :
        \A sl \in Listings(WalkDirs(fs, d)), fl \in Listings(WalkFiles(fs, d)) :
            /\ sub_dirs[d] = TreeNodeSubDirs(d, sl)
            /\ files[d] = TreeNodeFiles(d, fl)
            /\ Resolved(d) =>
                fut[d].val = Fold(<<>>, DigestsOf(TreeNodeSubDirs(d, sl) \o TreeNodeFiles(d, fl)))

\* A directory with two sub-directories and one with two files, each with
\* two listing orders, are resolved.
C15_Witness ==
    /\ \E d \in DOMAIN sub_dirs : Resolved(d) /\ Len(files[d]) = 2
    /\ \E d \in DOMAIN sub_dirs : Resolved(d) /\ Len(sub_dirs[d]) = 2

Reverse(s) == [i \in 1..Len(s) |-> s[Len(s) + 1 - i]]

\* C16 as stated: for every resolved directory with two or more children,
\* the chain over the children's digests in the reverse of the sorted order
\* differs from the digest of the directory.
C16_ReverseAlwaysDiffers ==
    \A d \in DOMAIN sub_dirs :
        (Resolved(d) /\ Len(Children(d)) >= 2)
            => Fold(<<>>, Reverse(DigestsOf(Children(d)))) # fut[d].val

\* C16: the chain is order-sensitive: for a resolved directory with two or
\* more children whose sequence of digests does not read the same backwards,
\* the chain over the digests in reverse order differs from the digest of
\* the directory.
C16_OrderSensitive ==
    \A d \in DOMAIN sub_dirs :
        ( /\ Resolved(d)
          /\ Len(Children(d)) >= 2
          /\ DigestsOf(Children(d)) # Reverse(DigestsOf(Children(d))) )
            => Fold(<<>>, Reverse(DigestsOf(Children(d)))) # fut[d].val

\* A directory with two children of different digests is resolved.
C16_Witness ==
    \E d \in DOMAIN sub_dirs :
        /\ Resolved(d)
        /\ Len(Children(d)) >= 2
        /\ fut[Children(d)[1]].val # fut[Children(d)[2]].val

\* The names of the immediate children of directory node d.
ChildNameSet(d) == {Last(p) : p \in paths[d]}

\* C17: when main has compared directory a with directory b, a with
\* children, the numerator is the number of child names the two have in
\* common, and the ratio is 1 when a and b are different directories and
\* every child name of a is a child name of b.
C17_NamingOverlap ==
    (mainpc = "done" /\ paths[cmp.self] # {})
    => /\ cmp.err = "none"
       /\ cmp.num = Cardinality(ChildNameSet(cmp.self) \cap ChildNameSet(cmp.other))
       /\ (cmp.self # cmp.other /\ ChildNameSet(cmp.self) \subseteq ChildNameSet(cmp.other))
            => cmp.num = cmp.den

\* C18: no set of `digests` holds both a file node and a directory node.
C18_HomogeneousClusters ==
    \A d \in DOMAIN digests :
        ~(\E n, m \in digests[d] : n \notin DOMAIN sub_dirs /\ m \in DOMAIN sub_dirs)

\* C19: the groups in dupe_groups are pairwise disjoint: two different
\* groups have no node in common and no two of their members have the same
\* digest.
C19_DisjointGroups ==
    \A g1, g2 \in dupe_groups :
        g1 # g2 =>
            /\ Range(g1) \cap Range(g2) = {}
            /\ \A n1 \in Range(g1), n2 \in Range(g2) : fut[n1].val # fut[n2].val

====
